---- MODULE Spec2Model ----
(***************************************************************************)
(* PR bot (src/src/index.ts): the reaction-driven deletion state machine.  *)
(*                                                                         *)
(* One key (channel, ts) is modelled: every handler reads and writes only  *)
(* the processingReactions / deletionTimers entries of the key of its own  *)
(* event, so keys do not interact.  The key's anchor message, its thread   *)
(* and its :merged: reaction live on the chat platform; the handlers see   *)
(* them only through awaited platform calls, each of which is a            *)
(* suspension point where any other handler or timer callback may run.     *)
(* An action is the synchronous code between two suspension points.        *)
(***************************************************************************)
EXTENDS Integers, Sequences, FiniteSets

\* ---------------------------------------------------------------- bounds
\* number of reaction_added events delivered for the key
MaxPasses == 2
\* number of platform calls that fail
MaxFailures == 1
\* length of a user id given to the /pr command
MaxIdLen == 2
\* number of replies the bot posts in threads for comment, approval and
\* update reactions
MaxReplies == 3

Passes == 1..MaxPasses

\* ------------------------------------------------------------- constants
\* JavaScript undefined (myBotId before / without auth.test, bot_id of a
\* human's message, user of a bare bot message)
Undef == "undefined"
\* the bot_id auth.test returns for this app
Me == "B_ME"
\* the bot_id of some other app
OtherBot == "B_OTHER"
\* the user id of this app's bot user, of a human
BotUser == "U_BOT"
Human == "U_HUMAN"

\* UPDATED is mapped only in the later variant of the program
\* (src/unnamed/part_000), whose reaction_added handler is the one of
\* src/src/index.ts with the :repeat: branch added
REACTIONS == [COMMENT |-> "speech_balloon", APPROVED |-> "white_check_mark",
              UPDATED |-> "repeat", MERGED |-> "merged"]
\* reaction names an event may carry: the mapped ones and one other
ReactionNames == {REACTIONS.COMMENT, REACTIONS.APPROVED, REACTIONS.UPDATED,
                  REACTIONS.MERGED, "eyes"}

\* reaction_removed events that do not take :merged: off a message, as
\* (event.reaction, event.item.type): another reaction leaves the anchor
\* message, a :merged: reaction leaves a file
OtherRemovedEvents == {<<"eyes", "message">>, <<REACTIONS.MERGED, "file">>}

\* message timestamps (identities) in the thread of the key
AnchorTs == 0
HumanTs == 1
OtherBotTs == 2
PostTs(p) == 2 + p

\* no entry in deletionTimers for the key (Map.get returns undefined)
NoTimer == [timeoutId |-> 0, warnTs |-> 0]

\* ------------------------------------------------------------------ text
\* A string is the sequence of its characters; an emoji is one element,
\* written as its name (white_circle, green_square, yellow_square,
\* red_square)
Whitespace == {" ", "\n", "\t"}
UpperCase == <<"A", "B", "C", "D", "E", "F", "G", "H", "I", "J", "K", "L", "M",
               "N", "O", "P", "Q", "R", "S", "T", "U", "V", "W", "X", "Y", "Z">>
LowerCase == <<"a", "b", "c", "d", "e", "f", "g", "h", "i", "j", "k", "l", "m",
               "n", "o", "p", "q", "r", "s", "t", "u", "v", "w", "x", "y", "z">>
Letters == {UpperCase[i] : i \in 1..26} \cup {LowerCase[i] : i \in 1..26}
Digits == {"0", "1", "2", "3", "4", "5", "6", "7", "8", "9"}

\* String.prototype.toLowerCase, of one character and of a string
LowerOf == [c \in {UpperCase[i] : i \in 1..26} |->
               LowerCase[CHOOSE i \in 1..26 : UpperCase[i] = c]]

LowerChar(c) == IF c \in DOMAIN LowerOf THEN LowerOf[c] ELSE c

toLowerCase(s) == [i \in 1..Len(s) |-> LowerChar(s[i])]

\* JavaScript undefined and null where a string is expected
Undefined == <<"undefined">>
Null == <<"null">>

\* String.prototype.includes
includes(s, sub) ==
    \E i \in 1..(Len(s) - Len(sub) + 1) : SubSeq(s, i, i + Len(sub) - 1) = sub

\* the first index at or after i whose character is (not) whitespace, or Len + 1
RECURSIVE SkipWhitespace(_, _)
SkipWhitespace(text, i) ==
    IF i <= Len(text) /\ text[i] \in Whitespace THEN SkipWhitespace(text, i + 1) ELSE i

RECURSIVE FindWhitespace(_, _)
FindWhitespace(text, i) ==
    IF i <= Len(text) /\ text[i] \notin Whitespace THEN FindWhitespace(text, i + 1) ELSE i

\* String.prototype.split(/\s+/): the fields between maximal runs of whitespace
RECURSIVE split(_)
split(text) ==
    LET w == FindWhitespace(text, 1) IN
    IF w > Len(text) THEN <<text>>
    ELSE <<SubSeq(text, 1, w - 1)>> \o split(SubSeq(text, SkipWhitespace(text, w), Len(text)))

\* --------------------------------------------------------- formatComplexity
Unknown ==
    <<"white_circle", " ", "*", "U", "n", "k", "n", "o", "w", "n", "*">>
Small ==
    <<"green_square", " ", "*", "S", "m", "a", "l", "l", "*">>
Medium ==
    <<"yellow_square", " ", "*", "M", "e", "d", "i", "u", "m", "*">>
Large ==
    <<"red_square", " ", "*", "L", "a", "r", "g", "e", "*">>
Ez ==
    <<":", "e", "z", ":">>

\* src/src/index.ts
formatComplexity(level) ==
    IF level = Undefined \/ level = <<>> THEN Unknown
    ELSE LET l == toLowerCase(level) IN
         IF l = <<"s", "m", "a", "l", "l">> THEN Small
         ELSE IF l = <<"m", "e", "d", "i", "u", "m">> THEN Medium
         ELSE IF l = <<"l", "a", "r", "g", "e">> THEN Large
         ELSE Unknown

\* src/unnamed/part_000
formatComplexityLate(level) ==
    IF level = Undefined \/ level = <<>> THEN Unknown
    ELSE LET l == toLowerCase(level) IN
         IF l = <<"e", "z">> THEN Ez
         ELSE IF l = <<"m", "e", "d", "i", "u", "m">> THEN Medium
         ELSE IF l = <<"l", "a", "r", "g", "e">> THEN Large
         ELSE Unknown

\* ------------------------------------------------------ getAuthorIdFromText
\* text has lit at index i, compared without regard to case (the i flag)
HasAt(text, i, lit) ==
    /\ i + Len(lit) - 1 <= Len(text)
    /\ \A k \in 1..Len(lit) : LowerChar(text[i + k - 1]) = LowerChar(lit[k])

\* (mutant) the class of the capture group is [A-Z] only
IdChar_LettersOnly(c) == c \in Letters

\* [A-Z0-9] under the i flag
IdChar(c) == c \in Letters \cup Digits

\* the first index at or after i whose character is outside the class, or Len + 1
RECURSIVE SkipId(_, _)
SkipId(text, i) ==
    IF i <= Len(text) /\ IdChar(text[i]) THEN SkipId(text, i + 1) ELSE i

\* the capture group of /Author:\s*<@([A-Z0-9]+)>/i matched at index i, or Null
AuthorMatchAt(text, i) ==
    IF ~HasAt(text, i, <<"A", "u", "t", "h", "o", "r", ":">>) THEN Null
    ELSE LET j == SkipWhitespace(text, i + 7) IN
         IF ~HasAt(text, j, <<"<", "@">>) THEN Null
         ELSE LET k == SkipId(text, j + 2) IN
              IF k > j + 2 /\ k <= Len(text) /\ text[k] = ">"
              THEN SubSeq(text, j + 2, k - 1)
              ELSE Null

\* text.match(...) returns the leftmost match; match[1] or null
getAuthorIdFromText(text) ==
    LET hits == {i \in 1..Len(text) : AuthorMatchAt(text, i) # Null} IN
    IF hits = {} THEN Null
    ELSE AuthorMatchAt(text, CHOOSE i \in hits : \A h \in hits : i <= h)

\* ----------------------------------------------------------------- MESSAGES
\* `<@${id}>`
Mention(id) == <<"<", "@">> \o id \o <<">">>

\* src/src/index.ts
COMMENT_OWN(id) ==
    Mention(id) \o
    <<",", " ", "s", "o", "m", "e", "o", "n", "e", " ", "m", "a", "d", "e",
      " ", "a", " ", "c", "o", "m", "m", "e", "n", "t", " ", "o", "r", " ",
      "t", "w", "o", " ", "o", "n", " ", "y", "o", "u", "r", " ", "P", "R",
      ".">>

\* src/unnamed/part_000
COMMENT_OWN_Late(authorId, reviewerId) ==
    Mention(authorId) \o
    <<",", " ", "a", " ", "c", "o", "m", "m", "e", "n", "t", " ", "o", "r",
      " ", "t", "w", "o", " ", "w", "a", "s", " ", "l", "e", "f", "t", " ",
      "o", "n", " ", "y", "o", "u", "r", " ", "P", "R", " ", "b", "y", " ">>
    \o Mention(reviewerId) \o <<".">>

COMMENT_OTHER ==
    <<"S", "o", "m", "e", "o", "n", "e", " ", "m", "a", "d", "e", " ", "a",
      " ", "c", "o", "m", "m", "e", "n", "t", " ", "o", "r", " ", "t", "w",
      "o", " ", "o", "n", " ", "t", "h", "i", "s", " ", "P", "R", ".">>

APPROVED_OWN(id) ==
    Mention(id) \o
    <<",", " ", "y", "o", "u", "r", " ", "P", "R", " ", "h", "a", "s", " ",
      "b", "e", "e", "n", " ", "a", "p", "p", "r", "o", "v", "e", "d", ",",
      " ", "t", "i", "m", "e", " ", "t", "o", " ", "s", "h", "i", "p", " ",
      "i", "t", "!">>

APPROVED_OWN_Late(id) ==
    Mention(id) \o
    <<",", " ", "y", "o", "u", "r", " ", "P", "R", " ", "h", "a", "s", " ",
      "b", "e", "e", "n", " ", "a", "p", "p", "r", "o", "v", "e", "d", ",",
      " ", "t", "i", "m", "e", " ", "t", "o", " ", "s", "h", "i", "p", " ",
      "i", "t", "!", " ", ":", "s", "h", "i", "p", "i", "t", ":">>

APPROVED_OTHER ==
    <<"T", "h", "i", "s", " ", "P", "R", " ", "h", "a", "s", " ", "b", "e",
      "e", "n", " ", "a", "p", "p", "r", "o", "v", "e", "d", ",", " ", "t",
      "i", "m", "e", " ", "t", "o", " ", "s", "h", "i", "p", " ", "i", "t",
      "!">>

APPROVED_OTHER_Late ==
    <<"T", "h", "i", "s", " ", "P", "R", " ", "h", "a", "s", " ", "b", "e",
      "e", "n", " ", "a", "p", "p", "r", "o", "v", "e", "d", ",", " ", "t",
      "i", "m", "e", " ", "t", "o", " ", "s", "h", "i", "p", " ", "i", "t",
      "!", " ", ":", "s", "h", "i", "p", "i", "t", ":">>

\* ------------------------------------------------------ :repeat: reply
\* a literal of a regular expression without the i flag, at index i
HasExactlyAt(text, i, lit) ==
    /\ i + Len(lit) - 1 <= Len(text)
    /\ \A k \in 1..Len(lit) : text[i + k - 1] = lit[k]

\* [A-Z0-9] without the i flag
ReviewerIdChar(c) == c \in {UpperCase[i] : i \in 1..26} \cup Digits

\* the first index at or after i whose character is outside the class, or Len + 1
RECURSIVE SkipReviewerId(_, _)
SkipReviewerId(text, i) ==
    IF i <= Len(text) /\ ReviewerIdChar(text[i]) THEN SkipReviewerId(text, i + 1)
    ELSE i

LeftOnYourPrBy ==
    <<"l", "e", "f", "t", " ", "o", "n", " ", "y", "o", "u", "r", " ", "P",
      "R", " ", "b", "y", " ", "<", "@">>

\* the capture group of /left on your PR by <@([A-Z0-9]+)>/ matched at index
\* i, or Null
ReviewerMatchAt(text, i) ==
    IF ~HasExactlyAt(text, i, LeftOnYourPrBy) THEN Null
    ELSE LET j == i + Len(LeftOnYourPrBy)
             k == SkipReviewerId(text, j)
         IN IF k > j /\ k <= Len(text) /\ text[k] = ">"
            THEN SubSeq(text, j, k - 1)
            ELSE Null

\* msg.text?.match(reviewerRegex): the leftmost match; match[1] or Null
reviewerMatch(text) ==
    LET hits == {i \in 1..Len(text) : ReviewerMatchAt(text, i) # Null} IN
    IF hits = {} THEN Null
    ELSE ReviewerMatchAt(text, CHOOSE i \in hits : \A h \in hits : i <= h)

\* (mutant) the reviewers are collected in an array: push without a lookup
add_NoDedupe(reviewers, id) == Append(reviewers, id)

\* Set.prototype.add: a Set keeps its elements once, in insertion order
add(reviewers, id) ==
    IF \E n \in 1..Len(reviewers) : reviewers[n] = id THEN reviewers
    ELSE Append(reviewers, id)

\* the loop over replies.messages, from an empty Set
RECURSIVE CollectReviewers(_, _)
CollectReviewers(texts, reviewers) ==
    IF texts = <<>> THEN reviewers
    ELSE CollectReviewers(Tail(texts),
             IF reviewerMatch(Head(texts)) = Null THEN reviewers
             ELSE add(reviewers, reviewerMatch(Head(texts))))

\* [...reviewers].map(id => `<@${id}>`).join(" ")
RECURSIVE JoinMentions(_)
JoinMentions(reviewers) ==
    IF reviewers = <<>> THEN <<>>
    ELSE IF Len(reviewers) = 1 THEN Mention(reviewers[1])
    ELSE Mention(reviewers[1]) \o <<" ">> \o JoinMentions(Tail(reviewers))

NO_REVIEWERS ==
    <<"U", "p", "d", "a", "t", "e", "s", " ", "w", "e", "r", "e", " ", "m",
      "a", "d", "e", ",", " ", "b", "u", "t", " ", "n", "o", " ", "r", "e",
      "v", "i", "e", "w", "e", "r", "s", " ", "w", "e", "r", "e", " ", "d",
      "e", "t", "e", "c", "t", "e", "d", ".">>

\* the text of the one chat.postMessage of the :repeat: branch
UpdatedText(reviewers) ==
    IF Len(reviewers) = 0 THEN NO_REVIEWERS
    ELSE JoinMentions(reviewers) \o
         <<" ", "-", " ", "T", "h", "e", " ", "P", "R", " ", "a", "u", "t",
           "h", "o", "r", " ", "h", "a", "s", " ", "u", "p", "d", "a", "t",
           "e", "d", " ", "t", "h", "e", " ", "P", "R", " ", "-", " ", "p",
           "l", "e", "a", "s", "e", " ", "r", "e", "v", "i", "e", "w", " ",
           "a", "g", "a", "i", "n">>

\* -------------------------------------------------------- /pr announcement
\* the text of the /pr command's chat.postMessage, src/src/index.ts
AnnouncementText(user_id, complexity, prUrl) ==
    <<"W", "e", " ", "h", "a", "v", "e", " ", "a", " ", "n", "e", "w", " ",
      "P", "R", "!", "\n", "\n", "A", "u", "t", "h", "o", "r", ":", " ",
      "<", "@">>
    \o user_id \o
    <<">", "\n", "C", "o", "m", "p", "l", "e", "x", "i", "t", "y", ":", " ">>
    \o complexity \o
    <<"\n", "L", "i", "n", "k", ":", " ">>
    \o prUrl

\* the same, src/unnamed/part_000
AnnouncementTextLate(user_id, complexity, prUrl) ==
    <<"L", "i", "n", "k", ":", " ", "<">>
    \o prUrl \o
    <<"|", "L", "i", "n", "k", " ", "t", "o", " ", "P", "R", " ", "o", "n",
      " ", "G", "i", "t", "H", "u", "b", ">", "\n", "A", "u", "t", "h",
      "o", "r", ":", " ", "<", "@">>
    \o user_id \o
    <<">", "\n", "C", "o", "m", "p", "l", "e", "x", "i", "t", "y", ":", " ">>
    \o complexity

\* ------------------------------------------------- process, /pr, replies
\* the two environment variables the program needs
ENV_KEYS == {"SLACK_BOT_TOKEN", "SLACK_SIGNING_SECRET"}

\* the texts of the /pr command's ephemeral responses
RESPONSES == [USAGE |-> "Usage: /pr <url> [complexity]",
              POSTED |-> "Posted PR to <#channel>",
              ERROR |-> "Error: Failed to post PR."]

\* command.user_id: the ids of 1..MaxIdLen characters over these characters
IdAlphabet == {"Z", "9"}
UserIds == UNION {[1..n -> IdAlphabet] : n \in 1..MaxIdLen}

\* event.user of a reaction event
Reviewers == {<<"Z", "9">>, <<"R", "2", "D", "2">>}

\* command.text: no argument, a URL alone, a URL and a level in several
\* casings and spacings, leading whitespace, a URL that spells an Author line
CommandTexts == {
    <<>>,
    <<"h", "t", "t", "p", ":", "/", "/", "x">>,
    <<"h", "t", "t", "p", ":", "/", "/", "x", " ", "s", "m", "a", "l", "l">>,
    <<"h", "t", "t", "p", ":", "/", "/", "x", " ", "S", "M", "A", "L", "L">>,
    <<"h", "t", "t", "p", ":", "/", "/", "x", " ", "M", "e", "d", "i", "u",
      "m">>,
    <<"h", "t", "t", "p", ":", "/", "/", "x", " ", " ", "l", "a", "r", "g",
      "e">>,
    <<"h", "t", "t", "p", ":", "/", "/", "x", " ", "E", "Z">>,
    <<"h", "t", "t", "p", ":", "/", "/", "x", " ", "h", "u", "g", "e">>,
    <<" ", "h", "t", "t", "p", ":", "/", "/", "x">>,
    <<"A", "u", "t", "h", "o", "r", ":", "<", "@", "U", "9", ">", " ", "s",
      "m", "a", "l", "l">>}

\* a message this bot posted in the channel that carries no Author line
PlainMessage ==
    [text |->
        <<"R", "e", "m", "i", "n", "d", "e", "r", ":", " ", "r", "e", "v",
          "i", "e", "w", " ", "o", "p", "e", "n", " ", "P", "R", "s", ".">>,
     user_id |-> Null]

VARIABLES
    deletionTimers,       \* the key's DeletionTimer entry, or NoTimer
    processingReactions,  \* TRUE iff the key is in the Set
    myBotId,              \* Undef or Me
    auth,                 \* startup: "pending", "ok", "failed"
    anchorBotId,          \* bot_id of the anchor message
    anchorExists,         \* the anchor message has not been deleted
    merged,               \* number of users whose :merged: reaction is on the anchor
    thread,               \* the thread's replies, oldest first (timestamps)
    pass,                 \* reaction_added handler invocations
    task,                 \* setTimeout callbacks, one per scheduling pass
    removed,              \* a :merged: reaction_removed event has been handled
    failures,             \* number of platform calls that were made to fail
    process,              \* the node process: variant, env, dotenvFile, pc
    chat                  \* the /pr side: command, responses, channel, replies, update

timerVars == <<deletionTimers, processingReactions, myBotId, auth, anchorBotId,
               anchorExists, merged, thread, pass, task, removed, failures>>

frontVars == <<process, chat>>

vars == <<deletionTimers, processingReactions, myBotId, auth, anchorBotId,
          anchorExists, merged, thread, pass, task, removed, failures,
          process, chat>>

\* which program runs: "early" is src/src/index.ts, "late" src/unnamed/part_000
variant == process.variant
\* the keys of ENV_KEYS set in process.env
env == process.env
\* the keys of ENV_KEYS set in the .env file
dotenvFile == process.dotenvFile
\* "load", "exited", "crashed", "starting", "started"
proc == process.pc
\* the /pr handler invocation
command == chat.command
\* the ephemeral responses the /pr handler has sent
responses == chat.responses
\* the bot's messages in the channel: text, and the user_id of the /pr that
\* posted it
channel == chat.channel
\* the notifications posted in threads: anchor, reaction, reactor, text
replies == chat.replies
\* the :repeat: branch of the reaction_added handler between its two awaits
update == chat.update

\* ------------------------------------------------------- message fields
bot_id(ts) ==
    IF ts = AnchorTs THEN anchorBotId
    ELSE IF ts = HumanTs THEN Undef
    ELSE IF ts = OtherBotTs THEN OtherBot
    ELSE Me

user(ts) ==
    IF ts = HumanTs THEN Human
    ELSE IF ts = OtherBotTs THEN Undef
    ELSE BotUser

Exists(ts) ==
    IF ts = AnchorTs THEN anchorExists
    ELSE \E i \in 1..Len(thread) : thread[i] = ts

Without(s, ts) == SelectSeq(s, LAMBDA m : m # ts)

\* ------------------------------------------------------------------ Init
IdlePass == [pc |-> "idle", reaction |-> "none", outcome |-> "none", revoked |-> FALSE]
NoTask == [pc |-> "none", stillHasMerged |-> FALSE, rest |-> <<>>, threw |-> FALSE]

\* the module's top-level state once app.start has resolved; id, a: the
\* progress of the startup block's auth.test
Started(id, a) ==
    /\ deletionTimers = NoTimer
    /\ processingReactions = FALSE
    /\ myBotId = id
    /\ auth = a
    /\ anchorBotId \in {Me, OtherBot, Undef}
    /\ anchorExists = TRUE
    /\ merged = 0
    /\ thread = <<HumanTs, OtherBotTs>>
    /\ pass = [p \in Passes |-> IdlePass]
    /\ task = [p \in Passes |-> NoTask]
    /\ removed = FALSE
    /\ failures = 0

IdleCommand == [pc |-> "idle", user_id |-> Null, prUrl |-> Null, complexityRaw |-> Null]

\* no :repeat: pass is between its thread fetch and its post
IdleUpdate == [pc |-> "idle", to |-> 0, by |-> Null, reviewers |-> <<>>, fetched |-> 0]

\* the process is serving events and has handled no /pr command yet; the
\* key's message was posted before (by this app, another app or a human)
Listening ==
    /\ process = [variant |-> "late", env |-> ENV_KEYS, dotenvFile |-> {},
                  pc |-> "started"]
    /\ chat = [command |-> IdleCommand, responses |-> <<>>, channel |-> <<>>,
               replies |-> <<>>, update |-> IdleUpdate]

Init == Started(Undef, "pending") /\ Listening

\* a platform call resolves (ok) or rejects
Outcome(ok) ==
    /\ ~ok => failures < MaxFailures
    /\ failures' = IF ok THEN failures ELSE failures + 1

\* chat.delete of message ts resolves (ok) or rejects; it always rejects
\* when the message is already gone (message_not_found)
DeleteOutcome(ts, ok) ==
    IF Exists(ts) THEN Outcome(ok) ELSE ~ok /\ UNCHANGED failures

\* --------------------------------------------------------------- startup
\* auth.test resolves: myBotId = auth.bot_id
AuthTestReturns ==
    /\ auth = "pending"
    /\ auth' = "ok"
    /\ myBotId' = Me
    /\ UNCHANGED <<deletionTimers, processingReactions, anchorBotId, anchorExists,
                   merged, thread, pass, task, removed, failures>>
    /\ UNCHANGED frontVars

\* auth.test rejects: the error is printed, myBotId stays undefined
AuthTestFails ==
    /\ auth = "pending"
    /\ auth' = "failed"
    /\ Outcome(FALSE)
    /\ UNCHANGED <<deletionTimers, processingReactions, myBotId, anchorBotId,
                   anchorExists, merged, thread, pass, task, removed>>
    /\ UNCHANGED frontVars

\* -------------------------------------------------------- reaction_added
\* Security check of the handler: message.bot_id !== myBotId fails
AuthoredByMe(ts) == bot_id(ts) = myBotId

\* processingReactions.has(key) at the re-check of the :merged: branch
StillProcessing == processingReactions

\* (mutant) the already-scheduled check is missing
AlreadyScheduled_Never == FALSE

\* deletionTimers.has(key)
AlreadyScheduled == deletionTimers # NoTimer

\* (mutant) the handler returns without releasing the guard
FinallyRelease_Leak == processingReactions

\* value of the key's guard after the handler's finally (and catch):
\* processingReactions.delete(key)
FinallyRelease == FALSE

\* the handler returns or throws: the finally block runs
Finish(p, outcome) ==
    /\ pass' = [pass EXCEPT ![p].pc = "done", ![p].reaction = "none",
                             ![p].outcome = outcome]
    /\ processingReactions' = FinallyRelease

\* (mutant) the handler catches the rejection and awaits the same call again
Rejected_Retry(p) == UNCHANGED <<pass, processingReactions>>

\* an awaited platform call rejects: the exception leaves the inner try
\* through its finally and is logged by the outer catch
Rejected(p) == Finish(p, "error")

\* (mutant) the approval branch does not return: it falls into the :merged: one
Dispatch_FallThrough(r) ==
    IF r = REACTIONS.COMMENT THEN "notify"
    ELSE IF r = REACTIONS.UPDATED THEN "scan"
    ELSE IF r \in {REACTIONS.APPROVED, REACTIONS.MERGED} THEN "merged"
    ELSE "none"

\* the chain of if (event.reaction === ...) blocks, each ending in a return
Dispatch(r) ==
    IF r \in {REACTIONS.COMMENT, REACTIONS.APPROVED} THEN "notify"
    ELSE IF r = REACTIONS.UPDATED THEN "scan"
    ELSE IF r = REACTIONS.MERGED THEN "merged"
    ELSE "none"

\* a user adds reaction r to the anchor; the handler runs up to its first
\* await (conversations.history)
ReactionAdded(p, r) ==
    /\ pass[p].pc = "idle"
    /\ \A q \in Passes : q < p => pass[q].pc # "idle"
    /\ merged' = IF r = REACTIONS.MERGED THEN merged + 1 ELSE merged
    /\ processingReactions' = TRUE
    /\ pass' = [pass EXCEPT ![p].pc = "history", ![p].reaction = r]
    /\ UNCHANGED <<deletionTimers, myBotId, auth, anchorBotId, anchorExists,
                   thread, task, removed, failures>>
    /\ UNCHANGED frontVars

\* conversations.history resolves (ok) or rejects; the handler runs up to
\* its next await or to its end.  history.messages[0] is the anchor while
\* it exists and is taken to be absent once the anchor has been deleted
HistoryReturns(p, ok) ==
    /\ pass[p].pc = "history"
    /\ Outcome(ok)
    /\ IF ~ok THEN Rejected(p)
       ELSE IF ~anchorExists \/ ~AuthoredByMe(AnchorTs) THEN Finish(p, "ignored")
       ELSE IF Dispatch(pass[p].reaction) \in {"notify", "scan"}
            THEN /\ pass' = [pass EXCEPT ![p].pc = Dispatch(pass[p].reaction)]
                 /\ UNCHANGED processingReactions
       ELSE IF Dispatch(pass[p].reaction) = "merged"
            THEN IF ~StillProcessing THEN Finish(p, "cancelled")
                 ELSE IF AlreadyScheduled THEN Finish(p, "already")
                 ELSE /\ pass' = [pass EXCEPT ![p].pc = "warn"]
                      /\ UNCHANGED processingReactions
       ELSE Finish(p, "unhandled")
    /\ UNCHANGED <<deletionTimers, myBotId, auth, anchorBotId, anchorExists,
                   merged, thread, task, removed>>
    /\ UNCHANGED frontVars

\* :repeat: branch: conversations.replies resolves (the reviewers are
\* collected, then the handler awaits its one chat.postMessage) or rejects
ScanReturns(p, ok) ==
    /\ pass[p].pc = "scan"
    /\ Outcome(ok)
    /\ IF ok
       THEN /\ pass' = [pass EXCEPT ![p].pc = "notify"]
            /\ UNCHANGED processingReactions
       ELSE Rejected(p)
    /\ UNCHANGED <<deletionTimers, myBotId, auth, anchorBotId, anchorExists,
                   merged, thread, task, removed>>
    /\ UNCHANGED frontVars

\* chat.postMessage of the comment / approval / update notification resolves
\* or rejects
NotifyReturns(p, ok) ==
    /\ pass[p].pc = "notify"
    /\ Outcome(ok)
    /\ thread' = IF ok THEN Append(thread, PostTs(p)) ELSE thread
    /\ IF ok THEN Finish(p, "notified") ELSE Rejected(p)
    /\ UNCHANGED <<deletionTimers, myBotId, auth, anchorBotId, anchorExists,
                   merged, task, removed>>
    /\ UNCHANGED frontVars

\* chat.postMessage of the warning resolves or rejects; on success
\* setTimeout arms the callback and deletionTimers.set records it
WarnReturns(p, ok) ==
    /\ pass[p].pc = "warn"
    /\ Outcome(ok)
    /\ IF ok
       THEN /\ thread' = Append(thread, PostTs(p))
            /\ task' = [task EXCEPT ![p].pc = "armed"]
            /\ deletionTimers' = [timeoutId |-> p, warnTs |-> PostTs(p)]
            /\ Finish(p, "scheduled")
       ELSE /\ Rejected(p)
            /\ UNCHANGED <<thread, task, deletionTimers>>
    /\ UNCHANGED <<myBotId, auth, anchorBotId, anchorExists, merged, removed>>
    /\ UNCHANGED frontVars

\* ------------------------------------------------------- setTimeout callback
\* reactions.some(r => r.name === REACTIONS.MERGED) on the re-queried message
StillHasMerged == merged > 0

\* the reply filter of the cleanup loop: msg.bot_id === myBotId || msg.user === myBotId
FromThisBot(ts) == bot_id(ts) = myBotId \/ user(ts) = myBotId

\* the loop runs synchronously over the fetched messages up to the next one
\* it deletes: the parent (msg.ts === ts) and foreign messages are skipped
RECURSIVE NextToDelete(_)
NextToDelete(msgs) ==
    IF msgs = <<>> THEN <<>>
    ELSE IF Head(msgs) = AnchorTs \/ ~FromThisBot(Head(msgs)) THEN NextToDelete(Tail(msgs))
    ELSE msgs

\* (mutant) the entry is removed at the end of the try block, not in a finally
AfterCallback_NoFinally(threw) == IF threw THEN deletionTimers ELSE NoTimer

\* deletionTimers entry of the key after the callback's finally block
\* (deletionTimers.delete(key)); threw: the outer catch ran before it
AfterCallback(threw) == NoTimer

\* the callback returns (or its outer catch has logged the error): the
\* finally block runs
Complete(t, threw) ==
    /\ task' = [task EXCEPT ![t].pc = "done", ![t].rest = <<>>, ![t].threw = threw]
    /\ deletionTimers' = AfterCallback(threw)

\* (mutant) the callback ignores the result of its re-query
Cancelled_Never(still) == FALSE

\* if (!stillHasMerged): the callback treats the deletion as cancelled
Cancelled(still) == ~still

\* after the loop (or the inner catch) the callback calls chat.delete on the parent
ContinueCleanup(t, msgs) ==
    LET rest == NextToDelete(msgs) IN
    IF rest = <<>>
    THEN task' = [task EXCEPT ![t].pc = "delParent", ![t].rest = <<>>]
    ELSE task' = [task EXCEPT ![t].pc = "delReply", ![t].rest = rest]

\* the 30 s timer expires: the callback runs up to its await of reactions.get
TimerFires(t) ==
    /\ task[t].pc = "armed"
    /\ task' = [task EXCEPT ![t].pc = "get"]
    /\ UNCHANGED <<deletionTimers, processingReactions, myBotId, auth, anchorBotId,
                   anchorExists, merged, thread, pass, removed, failures>>
    /\ UNCHANGED frontVars

\* reactions.get resolves or rejects
ReactionsGetReturns(t, ok) ==
    /\ task[t].pc = "get"
    /\ Outcome(ok)
    /\ IF ~ok
       THEN Complete(t, TRUE)
       ELSE /\ task' = [task EXCEPT
                          ![t].stillHasMerged = StillHasMerged,
                          ![t].pc = IF Cancelled(StillHasMerged) THEN "delWarnOnly"
                                    ELSE "replies"]
            /\ UNCHANGED deletionTimers
    /\ UNCHANGED <<processingReactions, myBotId, auth, anchorBotId, anchorExists,
                   merged, thread, pass, removed>>
    /\ UNCHANGED frontVars

\* reaction was absent: chat.delete of the warning resolves or rejects
\* (ignored), the callback returns
WarnOnlyDeleteReturns(t, ok) ==
    /\ task[t].pc = "delWarnOnly"
    /\ DeleteOutcome(PostTs(t), ok)
    /\ thread' = IF ok THEN Without(thread, PostTs(t)) ELSE thread
    /\ Complete(t, FALSE)
    /\ UNCHANGED <<processingReactions, myBotId, auth, anchorBotId, anchorExists,
                   merged, pass, removed>>
    /\ UNCHANGED frontVars

\* conversations.replies resolves (parent first, then the replies) or rejects
\* (inner catch)
RepliesReturns(t, ok) ==
    /\ task[t].pc = "replies"
    /\ Outcome(ok)
    /\ IF ok
       THEN ContinueCleanup(t, (IF anchorExists THEN <<AnchorTs>> ELSE <<>>) \o thread)
       ELSE ContinueCleanup(t, <<>>)
    /\ UNCHANGED <<deletionTimers, processingReactions, myBotId, auth, anchorBotId,
                   anchorExists, merged, thread, pass, removed>>
    /\ UNCHANGED frontVars

\* (mutant) a reply whose chat.delete rejects is tried again
AfterReplyDelete_Retry(t, ok) ==
    IF ok THEN ContinueCleanup(t, Tail(task[t].rest)) ELSE UNCHANGED task

\* the reply's chat.delete has resolved, or catch (delErr) has logged its
\* rejection: the loop goes on with the messages after it
AfterReplyDelete(t, ok) == ContinueCleanup(t, Tail(task[t].rest))

\* chat.delete of one reply resolves or rejects (logged); the loop goes on
ReplyDeleteReturns(t, ok) ==
    /\ task[t].pc = "delReply"
    /\ DeleteOutcome(Head(task[t].rest), ok)
    /\ thread' = IF ok THEN Without(thread, Head(task[t].rest)) ELSE thread
    /\ AfterReplyDelete(t, ok)
    /\ UNCHANGED <<deletionTimers, processingReactions, myBotId, auth, anchorBotId,
                   anchorExists, merged, pass, removed>>
    /\ UNCHANGED frontVars

\* chat.delete of the parent resolves, or rejects into the outer catch
ParentDeleteReturns(t, ok) ==
    /\ task[t].pc = "delParent"
    /\ DeleteOutcome(AnchorTs, ok)
    /\ IF ok
       THEN /\ anchorExists' = FALSE
            /\ task' = [task EXCEPT ![t].pc = "delWarn"]
            /\ UNCHANGED deletionTimers
       ELSE /\ Complete(t, TRUE)
            /\ UNCHANGED anchorExists
    /\ UNCHANGED <<processingReactions, myBotId, auth, anchorBotId, merged, thread,
                   pass, removed>>
    /\ UNCHANGED frontVars

\* the final chat.delete of the warning resolves or rejects (ignored)
WarnDeleteReturns(t, ok) ==
    /\ task[t].pc = "delWarn"
    /\ DeleteOutcome(PostTs(t), ok)
    /\ thread' = IF ok THEN Without(thread, PostTs(t)) ELSE thread
    /\ Complete(t, FALSE)
    /\ UNCHANGED <<processingReactions, myBotId, auth, anchorBotId, anchorExists,
                   merged, pass, removed>>
    /\ UNCHANGED frontVars

\* ------------------------------------------------------ reaction_removed
\* (mutant) cancelling also aborts a callback that is already running
ClearTimeout_Abort(id) == [task EXCEPT ![id].pc = "cancelled", ![id].rest = <<>>]

\* clearTimeout(timeoutId): a timer that has not fired never will
ClearTimeout(id) ==
    [task EXCEPT ![id].pc = IF @ = "armed" THEN "cancelled" ELSE @]

\* (mutant) the handler does not look at the reaction's name
NotForMe_AnyReaction(r, type) == type # "message"

\* the two early returns of the handler: event.reaction !== REACTIONS.MERGED,
\* event.item.type !== "message"
NotForMe(r, type) == r # REACTIONS.MERGED \/ type # "message"

\* the event reports a :merged: reaction leaving the anchor message
OffAnchor(r, type) == r = REACTIONS.MERGED /\ type = "message"

\* a user removes reaction r from an item of the key (the anchor message, or
\* a file); the handler runs to its end.  Its only await is the last
\* statement (chat.delete of the warning, errors logged): ok is that call's
\* outcome
ReactionRemoved(r, type, ok) ==
    /\ OffAnchor(r, type) => merged > 0
    /\ merged' = IF OffAnchor(r, type) THEN merged - 1 ELSE merged
    /\ removed' = (removed \/ OffAnchor(r, type))
    /\ pass' = [p \in Passes |->
                 IF /\ OffAnchor(r, type)
                    /\ pass[p].pc = "history"
                    /\ pass[p].reaction = REACTIONS.MERGED
                 THEN [pass[p] EXCEPT !.revoked = TRUE] ELSE pass[p]]
    /\ IF NotForMe(r, type)
       THEN /\ ok
            /\ UNCHANGED <<processingReactions, deletionTimers, task, thread, failures>>
       ELSE IF processingReactions
       THEN /\ ok
            /\ processingReactions' = FALSE
            /\ UNCHANGED <<deletionTimers, task, thread, failures>>
       ELSE IF deletionTimers = NoTimer
       THEN /\ ok
            /\ UNCHANGED <<processingReactions, deletionTimers, task, thread, failures>>
       ELSE /\ task' = ClearTimeout(deletionTimers.timeoutId)
            /\ deletionTimers' = NoTimer
            /\ DeleteOutcome(deletionTimers.warnTs, ok)
            /\ thread' = IF ok THEN Without(thread, deletionTimers.warnTs) ELSE thread
            /\ UNCHANGED processingReactions
    /\ UNCHANGED <<myBotId, auth, anchorBotId, anchorExists>>
    /\ UNCHANGED frontVars

\* ------------------------------------------------------------------ Spec
Next ==
    \/ AuthTestReturns
    \/ AuthTestFails
    \/ \E p \in Passes, r \in ReactionNames : ReactionAdded(p, r)
    \/ \E p \in Passes, ok \in BOOLEAN : HistoryReturns(p, ok)
    \/ \E p \in Passes, ok \in BOOLEAN : ScanReturns(p, ok)
    \/ \E p \in Passes, ok \in BOOLEAN : NotifyReturns(p, ok)
    \/ \E p \in Passes, ok \in BOOLEAN : WarnReturns(p, ok)
    \/ \E t \in Passes : TimerFires(t)
    \/ \E t \in Passes, ok \in BOOLEAN : ReactionsGetReturns(t, ok)
    \/ \E t \in Passes, ok \in BOOLEAN : WarnOnlyDeleteReturns(t, ok)
    \/ \E t \in Passes, ok \in BOOLEAN : RepliesReturns(t, ok)
    \/ \E t \in Passes, ok \in BOOLEAN : ReplyDeleteReturns(t, ok)
    \/ \E t \in Passes, ok \in BOOLEAN : ParentDeleteReturns(t, ok)
    \/ \E t \in Passes, ok \in BOOLEAN : WarnDeleteReturns(t, ok)
    \/ \E ok \in BOOLEAN : ReactionRemoved(REACTIONS.MERGED, "message", ok)

Spec == Init /\ [][Next]_vars

\* the process after its startup block has completed with auth.test resolved
InitRunning == Started(Me, "ok") /\ Listening

NextRunning ==
    \/ \E p \in Passes, r \in ReactionNames : ReactionAdded(p, r)
    \/ \E p \in Passes, ok \in BOOLEAN : HistoryReturns(p, ok)
    \/ \E p \in Passes, ok \in BOOLEAN : ScanReturns(p, ok)
    \/ \E p \in Passes, ok \in BOOLEAN : NotifyReturns(p, ok)
    \/ \E p \in Passes, ok \in BOOLEAN : WarnReturns(p, ok)
    \/ \E t \in Passes : TimerFires(t)
    \/ \E t \in Passes, ok \in BOOLEAN : ReactionsGetReturns(t, ok)
    \/ \E t \in Passes, ok \in BOOLEAN : WarnOnlyDeleteReturns(t, ok)
    \/ \E t \in Passes, ok \in BOOLEAN : RepliesReturns(t, ok)
    \/ \E t \in Passes, ok \in BOOLEAN : ReplyDeleteReturns(t, ok)
    \/ \E t \in Passes, ok \in BOOLEAN : ParentDeleteReturns(t, ok)
    \/ \E t \in Passes, ok \in BOOLEAN : WarnDeleteReturns(t, ok)
    \/ \E ok \in BOOLEAN : ReactionRemoved(REACTIONS.MERGED, "message", ok)

SpecRunning == InitRunning /\ [][NextRunning]_vars

\* a step of the program that no user takes: an awaited platform call
\* returns (resolves or rejects), or an armed timer fires
Returns ==
    \/ \E p \in Passes, ok \in BOOLEAN : HistoryReturns(p, ok)
    \/ \E p \in Passes, ok \in BOOLEAN : ScanReturns(p, ok)
    \/ \E p \in Passes, ok \in BOOLEAN : NotifyReturns(p, ok)
    \/ \E p \in Passes, ok \in BOOLEAN : WarnReturns(p, ok)
    \/ \E t \in Passes : TimerFires(t)
    \/ \E t \in Passes, ok \in BOOLEAN : ReactionsGetReturns(t, ok)
    \/ \E t \in Passes, ok \in BOOLEAN : WarnOnlyDeleteReturns(t, ok)
    \/ \E t \in Passes, ok \in BOOLEAN : RepliesReturns(t, ok)
    \/ \E t \in Passes, ok \in BOOLEAN : ReplyDeleteReturns(t, ok)
    \/ \E t \in Passes, ok \in BOOLEAN : ParentDeleteReturns(t, ok)
    \/ \E t \in Passes, ok \in BOOLEAN : WarnDeleteReturns(t, ok)

\* the running process when platform calls return and timers fire: while a
\* call is awaited or a timer is armed, one of them eventually takes its
\* step; the user events are under no obligation to happen
Fairness == WF_vars(Returns)

SpecLive == InitRunning /\ [][NextRunning]_vars /\ Fairness

\* the running process when the key receives :merged: reactions and
\* reaction_removed events of every kind: of :merged: on the anchor, of other
\* reactions, for other items
NextEvents ==
    \/ \E p \in Passes : ReactionAdded(p, REACTIONS.MERGED)
    \/ \E p \in Passes, ok \in BOOLEAN : HistoryReturns(p, ok)
    \/ \E p \in Passes, ok \in BOOLEAN : WarnReturns(p, ok)
    \/ \E t \in Passes : TimerFires(t)
    \/ \E t \in Passes, ok \in BOOLEAN : ReactionsGetReturns(t, ok)
    \/ \E t \in Passes, ok \in BOOLEAN : WarnOnlyDeleteReturns(t, ok)
    \/ \E t \in Passes, ok \in BOOLEAN : RepliesReturns(t, ok)
    \/ \E t \in Passes, ok \in BOOLEAN : ReplyDeleteReturns(t, ok)
    \/ \E t \in Passes, ok \in BOOLEAN : ParentDeleteReturns(t, ok)
    \/ \E t \in Passes, ok \in BOOLEAN : WarnDeleteReturns(t, ok)
    \/ \E ok \in BOOLEAN : ReactionRemoved(REACTIONS.MERGED, "message", ok)
    \/ \E e \in OtherRemovedEvents : ReactionRemoved(e[1], e[2], TRUE)

SpecEvents == InitRunning /\ [][NextEvents]_vars

\* ------------------------------------------------------- process startup
\* new ExpressReceiver({signingSecret: process.env.SLACK_SIGNING_SECRET || ""})
\* accepts the empty string; new App({token, receiver}) throws when token is
\* undefined (no token and no authorize function)
ConstructorsThrow(e) == "SLACK_BOT_TOKEN" \notin e

\* part_000 only: the check at the top of the module, before dotenv.config()
EnvCheckFails(v, e) == v = "late" /\ ~(ENV_KEYS \subseteq e)

\* the module's top-level code runs up to the await of app.start:
\* (part_000: the env check, process.exit(1)), dotenv.config(), which sets
\* the keys of .env that process.env does not have, and the constructors
LoadModule ==
    /\ proc = "load"
    /\ process' =
         IF EnvCheckFails(variant, env)
         THEN [process EXCEPT !.pc = "exited"]
         ELSE [process EXCEPT
                 !.env = env \cup dotenvFile,
                 !.pc = IF ConstructorsThrow(env \cup dotenvFile) THEN "crashed"
                        ELSE "starting"]
    /\ UNCHANGED chat
    /\ UNCHANGED timerVars

\* app.start resolves (the receiver serves requests) or rejects (unhandled)
AppStartReturns(ok) ==
    /\ proc = "starting"
    /\ process' = [process EXCEPT !.pc = IF ok THEN "started" ELSE "crashed"]
    /\ UNCHANGED chat
    /\ UNCHANGED timerVars

\* -------------------------------------------------------------------- /pr
\* (mutant) the handler does not return after the usage response
MissingUrl_Never(prUrl) == FALSE

\* if (!prUrl)
MissingUrl(prUrl) == prUrl = <<>>

\* a user runs /pr: ack, the arguments are split and, without a URL, the
\* usage response is sent and the handler returns; with one the handler
\* awaits chat.postMessage
PrCommand(user_id, text) ==
    LET parts == split(text)
        prUrl == parts[1]
        complexityRaw == IF Len(parts) >= 2 THEN parts[2] ELSE Undefined
    IN
    /\ proc = "started"
    /\ command.pc = "idle"
    /\ chat' = [chat EXCEPT
                  !.command = [pc |-> IF MissingUrl(prUrl) THEN "done" ELSE "post",
                               user_id |-> user_id, prUrl |-> prUrl,
                               complexityRaw |-> complexityRaw],
                  !.responses = IF MissingUrl(prUrl)
                                THEN Append(responses, RESPONSES.USAGE)
                                ELSE responses]
    /\ UNCHANGED process
    /\ UNCHANGED timerVars

\* the announcement's chat.postMessage resolves: index.ts sends the
\* "Posted" response, part_000 awaits updateChannelTopic; or it rejects:
\* the catch sends the error response
PostReturns(ok) ==
    /\ command.pc = "post"
    /\ chat' =
         IF ok
         THEN [chat EXCEPT
                 !.channel = Append(channel,
                     [text |-> IF variant = "early"
                               THEN AnnouncementText(command.user_id,
                                        formatComplexity(command.complexityRaw),
                                        command.prUrl)
                               ELSE AnnouncementTextLate(command.user_id,
                                        formatComplexityLate(command.complexityRaw),
                                        command.prUrl),
                      user_id |-> command.user_id]),
                 !.responses = IF variant = "early"
                               THEN Append(responses, RESPONSES.POSTED)
                               ELSE responses,
                 !.command.pc = IF variant = "early" THEN "respond" ELSE "topic"]
         ELSE [chat EXCEPT
                 !.responses = Append(responses, RESPONSES.ERROR),
                 !.command.pc = "done"]
    /\ UNCHANGED process
    /\ UNCHANGED timerVars

\* index.ts: the "Posted" response resolves, or rejects into the same catch,
\* which sends the error response
RespondReturns(ok) ==
    /\ command.pc = "respond"
    /\ chat' = [chat EXCEPT
                  !.responses = IF ok THEN responses
                                ELSE Append(responses, RESPONSES.ERROR),
                  !.command.pc = "done"]
    /\ UNCHANGED process
    /\ UNCHANGED timerVars

\* part_000: updateChannelTopic returns; it catches its own errors
TopicReturns ==
    /\ command.pc = "topic"
    /\ chat' = [chat EXCEPT !.command.pc = "done"]
    /\ UNCHANGED process
    /\ UNCHANGED timerVars

\* -------------------------------------------------- notification texts
\* the text the COMMENT / APPROVED branch posts
NotificationText(v, r, authorId, reviewerId) ==
    IF r = REACTIONS.COMMENT
    THEN IF authorId = Null THEN COMMENT_OTHER
         ELSE IF v = "early" THEN COMMENT_OWN(authorId)
         ELSE COMMENT_OWN_Late(authorId, reviewerId)
    ELSE IF authorId = Null
         THEN (IF v = "early" THEN APPROVED_OTHER ELSE APPROVED_OTHER_Late)
         ELSE (IF v = "early" THEN APPROVED_OWN(authorId) ELSE APPROVED_OWN_Late(authorId))

\* the reaction_added handler runs for reaction r of user reviewerId on the
\* i-th message of the channel, with no other handler interleaved and no
\* call failing: the message is the bot's, its text is parsed and the
\* notification is posted in its thread
NotificationPosted(i, r, reviewerId) ==
    /\ proc = "started"
    /\ myBotId = Me
    /\ Len(replies) < MaxReplies
    /\ chat' = [chat EXCEPT
                  !.replies = Append(replies,
                      [to |-> i, reaction |-> r, by |-> reviewerId,
                       text |-> NotificationText(variant, r,
                                    getAuthorIdFromText(channel[i].text),
                                    reviewerId)])]
    /\ UNCHANGED process
    /\ UNCHANGED timerVars

\* replies.messages of conversations.replies on the i-th message of the
\* channel: the parent, then the replies in its thread, oldest first
ThreadTexts(i) ==
    LET inThread == SelectSeq(replies, LAMBDA m : m.to = i) IN
    <<channel[i].text>> \o [n \in 1..Len(inThread) |-> inThread[n].text]

\* part_000: the reaction_added handler runs for a :repeat: reaction of a
\* user on the i-th message of the channel, up to its second await:
\* conversations.replies has resolved, the reviewers are collected and
\* chat.postMessage is called.  fetched: the number of replies posted so far
UpdateScanned(i, reactor) ==
    /\ proc = "started"
    /\ myBotId = Me
    /\ variant = "late"
    /\ update.pc = "idle"
    /\ Len(replies) < MaxReplies
    /\ chat' = [chat EXCEPT
                  !.update = [pc |-> "post", to |-> i, by |-> reactor,
                              reviewers |-> CollectReviewers(ThreadTexts(i), <<>>),
                              fetched |-> Len(replies)]]
    /\ UNCHANGED process
    /\ UNCHANGED timerVars

\* the chat.postMessage of the :repeat: branch resolves: the one reply is in
\* the thread
UpdatePosted ==
    /\ update.pc = "post"
    /\ Len(replies) < MaxReplies
    /\ chat' = [chat EXCEPT
                  !.replies = Append(replies,
                      [to |-> update.to, reaction |-> REACTIONS.UPDATED,
                       by |-> update.by,
                       text |-> UpdatedText(update.reviewers)]),
                  !.update = IdleUpdate]
    /\ UNCHANGED process
    /\ UNCHANGED timerVars

\* the process from the moment node loads the module: either variant, any
\* environment, no .env file or a complete one, auth.test resolving, one
\* /pr command, one notification
InitFront ==
    /\ Started(Undef, "pending")
    /\ anchorBotId = Me
    /\ process \in [variant : {"early", "late"}, env : SUBSET ENV_KEYS,
                    dotenvFile : {{}, ENV_KEYS}, pc : {"load"}]
    /\ chat = [command |-> IdleCommand, responses |-> <<>>,
               channel |-> <<PlainMessage>>, replies |-> <<>>,
               update |-> IdleUpdate]

NextFront ==
    \/ LoadModule
    \/ \E ok \in BOOLEAN : AppStartReturns(ok)
    \/ proc = "started" /\ AuthTestReturns
    \/ \E user_id \in UserIds, text \in CommandTexts : PrCommand(user_id, text)
    \/ \E ok \in BOOLEAN : PostReturns(ok)
    \/ \E ok \in BOOLEAN : RespondReturns(ok)
    \/ TopicReturns
    \/ \E i \in 1..Len(channel), r \in {REACTIONS.COMMENT, REACTIONS.APPROVED},
          reviewerId \in Reviewers :
           replies = <<>> /\ NotificationPosted(i, r, reviewerId)

SpecFront == InitFront /\ [][NextFront]_vars

\* part_000 serving events in a channel with two messages of the bot, a
\* plain one and a /pr announcement: reactions are added to them, up to
\* MaxReplies replies are posted
InitThread ==
    /\ Started(Me, "ok")
    /\ anchorBotId = Me
    /\ process = [variant |-> "late", env |-> ENV_KEYS, dotenvFile |-> {},
                  pc |-> "started"]
    /\ chat = [command |-> IdleCommand,
               responses |-> <<>>,
               channel |-> <<PlainMessage,
                             [text |-> AnnouncementTextLate(<<"Z", "9">>, Unknown,
                                           <<"h", "t", "t", "p", ":", "/", "/", "x">>),
                              user_id |-> <<"Z", "9">>]>>,
               replies |-> <<>>,
               update |-> IdleUpdate]

NextThread ==
    \/ \E i \in 1..Len(channel), r \in {REACTIONS.COMMENT, REACTIONS.APPROVED},
          reviewerId \in Reviewers : NotificationPosted(i, r, reviewerId)
    \/ \E i \in 1..Len(channel), reactor \in Reviewers : UpdateScanned(i, reactor)
    \/ UpdatePosted

SpecThread == InitThread /\ [][NextThread]_vars

\* ---------------------------------------------------------------- claims
InFlight(p) == pass[p].pc \in {"history", "scan", "notify", "warn"}
Armed(t) == task[t].pc = "armed"
Running(t) == task[t].pc \in {"get", "delWarnOnly", "replies", "delReply", "delParent", "delWarn"}
Quiescent == \A p \in Passes : ~InFlight(p) /\ ~Armed(p) /\ ~Running(p)

\* C1: at any time at most one deletion timer is armed for the key
C1_AtMostOneArmedTimer == Cardinality({t \in Passes : Armed(t)}) <= 1

\* C2: a :merged: pass during whose message fetch a :merged: removal was
\* handled posts no warning, arms no timer and records no entry
C2_RevokedPassNeverSchedules ==
    \A p \in Passes :
        pass[p].revoked => /\ pass[p].pc \in {"history", "done"}
                           /\ pass[p].outcome # "scheduled"

\* C3: a :merged: removal handled while the recorded timer is armed cancels
\* that timer and removes the deletionTimers entry
C3_RemovalCancelsArmedTimer ==
    [][(/\ merged' < merged
        /\ deletionTimers # NoTimer
        /\ Armed(deletionTimers.timeoutId))
       => (/\ deletionTimers' = NoTimer
           /\ task'[deletionTimers.timeoutId].pc = "cancelled")]_vars

\* C4: the callback goes on to the replies fetch, the reply deletions and the
\* anchor deletion only if its re-query saw :merged: on the message; if it
\* did not, the only call it makes is the deletion of its warning
C4_DeletesOnlyIfStillMerged ==
    \A t \in Passes :
        task[t].pc \in {"replies", "delReply", "delParent", "delWarn"}
            => task[t].stillHasMerged

C4_Witness ==
    \E t \in Passes :
        /\ task[t].pc = "done" /\ ~task[t].threw /\ ~task[t].stillHasMerged
        /\ anchorExists
        /\ ~Exists(PostTs(t))

\* C5: a pass posts a notification or a warning, or schedules a deletion,
\* only if the anchor was authored by this bot
C5_OnlyOwnMessages ==
    \A p \in Passes :
        (pass[p].pc \in {"notify", "warn"} \/ pass[p].outcome \in {"notified", "scheduled"})
            => anchorBotId = Me

\* C6: the replies of the human and of the other bot are never deleted
C6_ForeignRepliesKept == Exists(HumanTs) /\ Exists(OtherBotTs)

\* C7: once everything has come to rest after a :merged: reaction was added
\* to a bot-authored anchor and never removed, with no platform call
\* failing, the anchor and every bot-authored reply are deleted and the
\* deletionTimers entry is gone
C7_CleanupCompletes ==
    (Quiescent /\ merged > 0 /\ ~removed /\ failures = 0 /\ anchorBotId = Me)
        => (/\ ~anchorExists
            /\ deletionTimers = NoTimer
            /\ \A i \in 1..Len(thread) : bot_id(thread[i]) # Me)

\* C8: a :merged: pass whose message fetch returns while the key has a
\* deletionTimers entry ends there: no warning is posted, no timer is armed
\* and the entry stays as it is
C8_SecondMergedIsNoOp ==
    [][\A p \in Passes :
         (/\ pass[p].pc = "history"
          /\ pass[p].reaction = REACTIONS.MERGED
          /\ deletionTimers # NoTimer
          /\ pass'[p].pc # "history")
         => (/\ pass'[p].pc = "done"
             /\ deletionTimers' = deletionTimers
             /\ task' = task
             /\ thread' = thread)]_vars

C8_Witness ==
    /\ \E p \in Passes : pass[p].outcome = "already"
    /\ deletionTimers # NoTimer
    /\ Cardinality({t \in Passes : task[t].pc # "none"}) = 1

\* C9: the key is in processingReactions only while a reaction_added pass
\* for it is in flight
C9_GuardOnlyWhileInFlight ==
    processingReactions => \E p \in Passes : InFlight(p)

C9_Witness ==
    /\ \A p \in Passes : pass[p].pc = "done"
    /\ \E p \in Passes : pass[p].outcome = "error"
    /\ \E p \in Passes : pass[p].outcome = "ignored"
    /\ ~processingReactions

\* C10: the step in which a fired callback completes leaves no
\* deletionTimers entry for the key, whatever path the callback took
C10_CallbackRemovesEntry ==
    [][\A t \in Passes :
         (task[t].pc # "done" /\ task'[t].pc = "done") => deletionTimers' = NoTimer]_vars

C10_Witness ==
    \E t \in Passes : task[t].pc = "done" /\ task[t].threw /\ deletionTimers = NoTimer

\* C11: the step in which a fired callback completes removes the key's
\* deletionTimers entry only if that entry is the callback's own: an entry
\* recorded by a later scheduling pass stays as it is
C11_RemovesOnlyOwnEntry ==
    [][\A t \in Passes :
         (/\ task[t].pc # "done" /\ task'[t].pc = "done"
          /\ deletionTimers # NoTimer
          /\ deletionTimers.timeoutId # t)
         => deletionTimers' = deletionTimers]_vars

C17_RemovalBeforeRegistrationWins ==
    [][\A p \in Passes :
         (pass[p].pc = "warn" /\ merged = 0 /\ pass'[p].pc = "done")
         => task'[p].pc # "armed"]_vars

\* C18: with no platform call failing, a :merged: pass finds the key absent
\* at its guard re-check only if a :merged: removal has been handled
C18_RecheckFailsOnlyOnRemoval ==
    \A p \in Passes : (pass[p].outcome = "cancelled" /\ failures = 0) => removed

\* C19: a :merged: removal handled after a fired callback has seen :merged:
\* in its re-query leaves that callback where it is: it goes on to its reply
\* deletions and its anchor deletion
C19_FiredTaskNotCancellable ==
    [][merged' < merged =>
         \A t \in Passes :
             (Running(t) /\ task[t].stillHasMerged) => task'[t] = task[t]]_vars

C19_Witness ==
    \E t \in Passes :
        /\ task[t].pc = "delWarn"
        /\ task[t].stillHasMerged
        /\ merged = 0
        /\ ~anchorExists
        /\ \A u \in Passes : u # t => task[u].pc = "none"

\* C20: a pass for a reaction other than :merged: leaves the timers and
\* deletionTimers as they are at every step; its fetches post nothing, and
\* the step that ends its notification post adds exactly one reply when the
\* post succeeded and none when it failed
C20_OtherReactionsArmNothing ==
    [][\A p \in Passes :
         LET r == IF pass[p].pc = "idle" THEN pass'[p].reaction ELSE pass[p].reaction IN
         (pass'[p] # pass[p] /\ r # REACTIONS.MERGED)
         => /\ deletionTimers' = deletionTimers
            /\ task' = task
            /\ pass[p].pc = "notify" => pass'[p].pc = "done"
            /\ thread' = IF pass'[p].outcome = "notified"
                         THEN Append(thread, PostTs(p)) ELSE thread]_vars

C20_Witness ==
    /\ \A p \in Passes : pass[p].outcome = "notified" /\ Exists(PostTs(p))
    /\ \A t \in Passes : task[t].pc = "none"
    /\ deletionTimers = NoTimer
    /\ Len(thread) = 2 + MaxPasses

\* C13: the reply to a :speech_balloon: reaction mentions the author the
\* announcement embeds and the user who reacted; on a message without an
\* author it is the generic text
C13_CommentMentionsBoth ==
    \A k \in 1..Len(replies) :
        replies[k].reaction = REACTIONS.COMMENT =>
            LET a == getAuthorIdFromText(channel[replies[k].to].text) IN
            IF a = Null THEN replies[k].text = COMMENT_OTHER
            ELSE /\ includes(replies[k].text, Mention(a))
                 /\ includes(replies[k].text, Mention(replies[k].by))

C15_CommandFailuresRespondOnce ==
    [][/\ (command.pc = "idle" /\ command'.pc # "idle" /\ command'.prUrl = <<>>)
          => /\ responses' = <<RESPONSES.USAGE>>
             /\ channel' = channel
             /\ command'.pc = "done"
       /\ (command.pc = "post" /\ command'.pc # "post" /\ channel' = channel)
          => /\ responses' = <<RESPONSES.ERROR>>
             /\ command'.pc = "done"
       /\ command' # command
          => /\ deletionTimers' = deletionTimers
             /\ processingReactions' = processingReactions]_vars

C15_Witness ==
    /\ command.pc = "done"
    /\ command.prUrl # <<>>
    /\ responses = <<RESPONSES.ERROR>>
    /\ channel = <<PlainMessage>>

\* C16: a process that finds the bot token or the signing secret neither in
\* its environment nor in its .env file does not reach app.start and serves
\* no command
C16_RefusesToStartWithoutSecrets ==
    (\E k \in ENV_KEYS : k \notin env /\ k \notin dotenvFile)
        => /\ proc \in {"load", "exited", "crashed"}
           /\ command.pc = "idle"

\* C21: the reaction_removed handler changes nothing for a reaction other
\* than :merged:, for an item other than a message, and when the key is in
\* neither processingReactions nor deletionTimers; one invocation either
\* revokes the guard or cancels the pending deletion, never both.  A step
\* that leaves the number of :merged: reactions on the anchor as it was is
\* no :merged: removal: there the guard is released only by a pass that
\* ends, an entry is removed only by a callback that ends, no timer is
\* cancelled and no message is deleted outside a callback
C21_RemovedHandlerFrame ==
    [][/\ merged' = merged =>
            /\ (processingReactions /\ ~processingReactions') =>
                   \E p \in Passes : InFlight(p) /\ pass'[p].pc = "done"
            /\ (deletionTimers # NoTimer /\ deletionTimers' = NoTimer) =>
                   \E t \in Passes : Running(t) /\ task'[t].pc = "done"
            /\ \A t \in Passes : task'[t].pc = "cancelled" => task[t].pc = "cancelled"
            /\ (Len(thread') < Len(thread) \/ failures' > failures) =>
                   \E q \in Passes : pass'[q] # pass[q] \/ task'[q] # task[q]
       /\ (merged' < merged /\ ~processingReactions /\ deletionTimers = NoTimer) =>
            UNCHANGED <<processingReactions, deletionTimers, task, thread, failures>>
       /\ (merged' < merged /\ processingReactions) =>
            /\ ~processingReactions'
            /\ UNCHANGED <<deletionTimers, task, thread, failures>>
       /\ (merged' < merged /\ ~processingReactions) =>
            UNCHANGED processingReactions]_vars

\* every :merged: reaction is off again: a removal has cancelled a pending
\* deletion, and a second :merged: pass had found it scheduled
C21_Witness ==
    /\ removed
    /\ merged = 0
    /\ ~processingReactions
    /\ deletionTimers = NoTimer
    /\ \E t \in Passes : task[t].pc = "cancelled"
    /\ \E p \in Passes : pass[p].outcome = "already"

\* C22: when a platform call awaited by a reaction_added pass fails (the
\* message fetch, the thread scan, the notification post or the warning
\* post), that pass ends with the error logged and makes no further call,
\* the guard is released, no timer is armed, deletionTimers and the thread
\* are as before, and the other passes are untouched
C22_FailedPassReleases ==
    [][(/\ failures' > failures
        /\ merged' = merged
        /\ auth' = auth
        /\ \A t \in Passes : Running(t) => task'[t] = task[t])
       => /\ \E p \in Passes :
                /\ InFlight(p)
                /\ pass'[p].pc = "done"
                /\ pass'[p].outcome = "error"
                /\ \A q \in Passes \ {p} : pass'[q] = pass[q]
          /\ ~processingReactions'
          /\ task' = task
          /\ deletionTimers' = deletionTimers
          /\ thread' = thread]_vars

\* the first pass ended on a failed call, and the next event was handled:
\* its pass has scheduled the deletion
C22_Witness ==
    /\ pass[1].outcome = "error"
    /\ task[1].pc = "none"
    /\ pass[2].outcome = "scheduled"
    /\ Armed(2)
    /\ deletionTimers.timeoutId = 2

\* C23: when every platform call returns and every timer left armed fires,
\* then from some point on the key is in neither processingReactions nor
\* deletionTimers, no handler pass is in flight, no timer is armed and no
\* callback is running
C23_Quiescence ==
    <>[](Quiescent /\ ~processingReactions /\ deletionTimers = NoTimer)

\* the key at rest after one pending deletion was cancelled and another has
\* run its callback to the end
C23_Witness ==
    /\ Quiescent
    /\ ~processingReactions
    /\ deletionTimers = NoTimer
    /\ \E t \in Passes : task[t].pc = "cancelled"
    /\ \E t \in Passes : task[t].pc = "done"

\* the number of places where lit occurs in text
Occurrences(text, lit) == Cardinality({i \in 1..Len(text) : HasExactlyAt(text, i, lit)})

\* the reviewers named by the comment notifications among the first n
\* replies, in the thread of the to-th message of the channel
NamedReviewers(n, to) ==
    {replies[m].by : m \in {l \in 1..n :
                              /\ replies[l].to = to
                              /\ replies[l].reaction = REACTIONS.COMMENT
                              /\ Occurrences(replies[l].text,
                                             Mention(replies[l].by)) > 0}}

\* C24: a :repeat: reaction posts one reply.  It mentions every reviewer
\* named by a comment notification that was in the thread when the handler
\* fetched it exactly once and nobody else, and it is the no-reviewers text
\* exactly when no such notification names a reviewer
C24_UpdateMentionsEachReviewerOnce ==
    [][(/\ Len(replies') > Len(replies)
        /\ replies'[Len(replies')].reaction = REACTIONS.UPDATED)
       => LET k == Len(replies')
              text == replies'[k].text
              ids == NamedReviewers(update.fetched, update.to)
          IN /\ k = Len(replies) + 1
             /\ SubSeq(replies', 1, k - 1) = replies
             /\ replies'[k].to = update.to
             /\ (ids = {}) <=> (text = NO_REVIEWERS)
             /\ \A id \in ids : Occurrences(text, Mention(id)) = 1
             /\ Occurrences(text, <<"<", "@">>) = Cardinality(ids)]_vars

\* an update reply in a thread where the same reviewer was named by two
\* comment notifications: it mentions that reviewer once
C24_Witness ==
    \E k \in 1..Len(replies) :
        /\ replies[k].reaction = REACTIONS.UPDATED
        /\ \E m, n \in 1..(k - 1) :
              /\ m < n
              /\ replies[m].to = replies[k].to /\ replies[n].to = replies[k].to
              /\ replies[m].reaction = REACTIONS.COMMENT
              /\ replies[n].reaction = REACTIONS.COMMENT
              /\ replies[m].by = replies[n].by
              /\ Occurrences(replies[m].text, Mention(replies[m].by)) > 0
              /\ Occurrences(replies[n].text, Mention(replies[n].by)) > 0
              /\ Occurrences(replies[k].text, Mention(replies[m].by)) = 1

\* C25: every armed deletion timer is the one recorded in deletionTimers, so
\* a :merged: removal can find and cancel it
C25_ArmedTimerIsRecorded ==
    \A t \in Passes : Armed(t) => deletionTimers.timeoutId = t

\* C26: the anchor is deleted only by the callback of a :merged: pass that
\* posted its warning before; and when a callback goes on to the deletion of
\* the anchor, it has attempted the deletion of every bot-authored reply:
\* it comes from the last reply deletion of the loop with nothing deletable
\* left among the fetched messages, or straight from the fetch with no
\* bot-authored reply in the thread
C26_RepliesBeforeAnchor ==
    [][/\ (anchorExists /\ ~anchorExists') =>
            \E t \in Passes : /\ task[t].pc = "delParent"
                              /\ task'[t].pc = "delWarn"
                              /\ pass[t].outcome = "scheduled"
       /\ \A t \in Passes :
            (task[t].pc = "delReply" /\ task'[t].pc = "delParent") =>
                \A i \in 2..Len(task[t].rest) :
                    task[t].rest[i] = AnchorTs \/ bot_id(task[t].rest[i]) # Me
       /\ \A t \in Passes :
            (task[t].pc = "replies" /\ task'[t].pc = "delParent") =>
                \A i \in 1..Len(thread) : bot_id(thread[i]) # Me]_vars
====
